---------------------------- MODULE Spec2Model ----------------------------
(***************************************************************************)
(* Model of the intraday-chart pipeline of src/src/App.jsx: the market     *)
(* panels (candles, openingRange, trades), the fetches of loadMarketData,  *)
(* and the chart effect (candle normalization, opening-range lines, trade  *)
(* markers and price lines, legend).                                       *)
(*                                                                         *)
(* Conventions                                                             *)
(*   - an absent JSON key / null / undefined is Nil (the empty sequence),  *)
(*     a present value v is <<v>>;                                         *)
(*   - NaN is the empty sequence too where a number is expected            *)
(*     (Number(undefined), Date.parse of an unparsable string);            *)
(*   - prices are integers in units of 10^-PriceDigits;                 *)
(*   - an ISO timestamp is [date |-> "YYYY-MM-DD", ms |-> ms of the day];  *)
(*   - the index feed's 's' is epoch milliseconds.                         *)
(***************************************************************************)
EXTENDS Integers, Sequences, FiniteSets, Bags, TLC

VARIABLES
    activeTab,      \* location.pathname tab key (App.jsx:43)
    instrument,     \* useState('SPX')            (App.jsx:62)
    candlesDay,     \* useState(today)            (App.jsx:61)
    candles,        \* panel {data, loading, error} (App.jsx:55)
    openingRange,   \* panel                      (App.jsx:54)
    trades,         \* panel                      (App.jsx:52)
    pending,        \* fetches in flight: a bag, any of them may settle next
    applied,        \* history: request key of the response held in each panel
    chart,          \* what the chart effect last put on the rendering surface
    user,           \* useState(null): the account's email (App.jsx:46)
    authError,      \* useState('')               (App.jsx:47)
    account,        \* the account Firebase auth holds
    authEvents,     \* auth-state events not yet handed to the callback, in order
    strategies,     \* panel                      (App.jsx:49)
    balance,        \* panel                      (App.jsx:50)
    expandedTradeId, \* useState(null)            (App.jsx:63)
    tradeEvents,    \* {data, loading}            (App.jsx:64)
    riskChf,        \* {value, saving, loaded}    (App.jsx:65)
    lastSaveRisk,   \* history: what the last call of saveRisk came to
    requests        \* dashboard fetches in flight: a bag

marketVars == <<activeTab, instrument, candlesDay, candles, openingRange, trades,
                pending, applied, chart>>

dashVars == <<user, authError, account, authEvents, strategies, balance,
              expandedTradeId, tradeEvents, riskChf, lastSaveRisk, requests>>

vars == <<marketVars, dashVars>>

---------------------------------------------------------------------------
(* Values *)

Nil == <<>>

Some(v) == <<v>>

Val(x) == x[1]

MsPerSecond == 1000

SecondsPerDay == 24 * 3600

\* prices are integers in units of 10^-PriceDigits
PriceDigits == 2 + 3

RECURSIVE Pow10(_)
Pow10(n) == IF n = 0 THEN 1 ELSE 10 * Pow10(n - 1)

Abs(x) == IF x < 0 THEN -x ELSE x

\* Math.floor(x / 1000) on integers
FloorSeconds(ms) == ms \div MsPerSecond

---------------------------------------------------------------------------
(* InstrumentCatalog *)

INSTRUMENTS ==
    << [sym |-> "SPX",     label |-> "S&P 500",    source |-> "polygon", decimals |-> 1],
       [sym |-> "NDX",     label |-> "Nasdaq 100", source |-> "polygon", decimals |-> 1],
       [sym |-> "EUR_USD", label |-> "EUR/USD",    source |-> "oanda",   decimals |-> 5],
       [sym |-> "GBP_USD", label |-> "GBP/USD",    source |-> "oanda",   decimals |-> 5],
       [sym |-> "USD_CHF", label |-> "USD/CHF",    source |-> "oanda",   decimals |-> 5],
       [sym |-> "USD_JPY", label |-> "USD/JPY",    source |-> "oanda",   decimals |-> 3],
       [sym |-> "EUR_GBP", label |-> "EUR/GBP",    source |-> "oanda",   decimals |-> 5],
       [sym |-> "EUR_JPY", label |-> "EUR/JPY",    source |-> "oanda",   decimals |-> 3],
       [sym |-> "GBP_JPY", label |-> "GBP/JPY",    source |-> "oanda",   decimals |-> 3],
       [sym |-> "AUD_USD", label |-> "AUD/USD",    source |-> "oanda",   decimals |-> 5],
       [sym |-> "NZD_USD", label |-> "NZD/USD",    source |-> "oanda",   decimals |-> 5],
       [sym |-> "USD_CAD", label |-> "USD/CAD",    source |-> "oanda",   decimals |-> 5] >>

\* currentInstrument defaulting to the last entry of the catalog
currentInstrument_LastDefault(sym) ==
    LET hits == {i \in 1..Len(INSTRUMENTS) : INSTRUMENTS[i].sym = sym}
    IN  IF hits = {} THEN INSTRUMENTS[Len(INSTRUMENTS)]
        ELSE INSTRUMENTS[CHOOSE i \in hits : \A j \in hits : i <= j]

\* INSTRUMENTS.find(i => i.sym === instrument) || INSTRUMENTS[0]
currentInstrument(sym) ==
    LET hits == {i \in 1..Len(INSTRUMENTS) : INSTRUMENTS[i].sym = sym}
    IN  IF hits = {} THEN INSTRUMENTS[1]
        ELSE INSTRUMENTS[CHOOSE i \in hits : \A j \in hits : i <= j]

PRICE_DECIMALS ==
    [k \in {"SPX500_USD", "NAS100_USD", "US30_USD"} |-> 1]
    @@ [k \in {"USD_JPY", "EUR_JPY", "GBP_JPY"} |-> 3]

\* PRICE_DECIMALS[instrument] ?? 5
priceDec(sym) == IF sym \in DOMAIN PRICE_DECIMALS THEN PRICE_DECIMALS[sym] ELSE 5

isOanda(sym) == currentInstrument(sym).source = "oanda"

\* `I:${instrument}`
symTag(sym) == "I:" \o sym

---------------------------------------------------------------------------
(* Dates *)

Day1 == "1970-01-02"

Day2 == "1970-01-03"

\* days since the epoch of a YYYY-MM-DD date
DayNumber(date) == CASE date = Day1 -> 1
                     [] date = Day2 -> 2

Iso(date, ms) == [date |-> date, ms |-> ms]

\* a string that Date.parse cannot read
BadTime == [date |-> "bad", ms |-> 0]

\* the number n under a key read as a date string: Date.parse(n) parses
\* String(n), a bare digit string, which no engine reads as epoch seconds
\* (it is NaN, or a calendar year in local time); modelled as unparsable
NumberTime(n) == [date |-> "number", ms |-> n]

\* Date.parse(x): epoch milliseconds, NaN for undefined or an unparsable string
DateParse(x) ==
    IF x = Nil THEN Nil
    ELSE IF Val(x).date \in {Day1, Day2}
         THEN Some(DayNumber(Val(x).date) * SecondsPerDay * MsPerSecond + Val(x).ms)
         ELSE Nil

\* t.timestamp?.startsWith(candlesDay): candlesDay is '' or a full date
StartsWith(ts, day) == ts # Nil /\ (day = "" \/ Val(ts).date = day)

\* epoch milliseconds of second `sec` (plus `ms`) of a day
EpochMs(date, sec, ms) == (DayNumber(date) * SecondsPerDay + sec) * MsPerSecond + ms

EpochSec(date, sec) == DayNumber(date) * SecondsPerDay + sec

---------------------------------------------------------------------------
(* CandleNormalizer: App.jsx:339-353 *)

\* a ?? b
Coalesce(a, b) == IF a # Nil THEN a ELSE b

\* a || b on optional numbers: undefined, null and 0 are falsy
OrElse(a, b) == IF a # Nil /\ Val(a) # 0 THEN a ELSE b

\* symKeep without the untagged case
symKeep_TaggedOnly(c, sym) == isOanda(sym) \/ c.sym = symTag(sym)

\* .filter(c => isOanda || !c.sym || c.sym === sym)
symKeep(c, sym) == isOanda(sym) \/ c.sym = "" \/ c.sym = symTag(sym)

\* time: isOanda ? Math.floor(Date.parse(c.time) / 1000) : Math.floor((c.s || 0) / 1000)
candleTime(c, sym) ==
    IF isOanda(sym)
    THEN IF DateParse(c.time) = Nil THEN Nil
         ELSE Some(FloorSeconds(Val(DateParse(c.time))))
    ELSE Some(FloorSeconds(Val(OrElse(c.s, Some(0)))))

\* toBar reading the short keys with || : a 0 under the short key is passed over
toBar_ZeroIsAbsent(c, sym) ==
    [time  |-> candleTime(c, sym),
     open  |-> OrElse(c.o, c.open),
     high  |-> OrElse(c.h, c.high),
     low   |-> OrElse(c.l, c.low),
     close |-> OrElse(c.c, c.close)]

\* .map(c => ({time, open: c.o ?? c.open, high: ..., low: ..., close: ...}))
toBar(c, sym) ==
    [time  |-> candleTime(c, sym),
     open  |-> Coalesce(c.o, c.open),
     high  |-> Coalesce(c.h, c.high),
     low   |-> Coalesce(c.l, c.low),
     close |-> Coalesce(c.c, c.close)]

\* barKeep with the time test off by one: d.time >= 0
barKeep_ZeroTime(d) == d.open # Nil /\ d.time # Nil /\ Val(d.time) >= 0

\* .filter(d => d.open != null && d.time > 0)
barKeep(d) == d.open # Nil /\ d.time # Nil /\ Val(d.time) > 0

RECURSIVE MapBars(_, _)
MapBars(batch, sym) ==
    IF batch = <<>> THEN <<>>
    ELSE <<toBar(Head(batch), sym)>> \o MapBars(Tail(batch), sym)

\* InsertByTime putting x before the elements of equal time (an unstable sort)
RECURSIVE InsertByTime_Before(_, _)
InsertByTime_Before(x, sorted) ==
    IF sorted = <<>> THEN <<x>>
    ELSE IF Val(Head(sorted).time) < Val(x.time)
         THEN <<Head(sorted)>> \o InsertByTime_Before(x, Tail(sorted))
         ELSE <<x>> \o sorted

\* insertion of x after every element whose time is <= x.time (stable)
RECURSIVE InsertByTime(_, _)
InsertByTime(x, sorted) ==
    IF sorted = <<>> THEN <<x>>
    ELSE IF Val(Head(sorted).time) <= Val(x.time)
         THEN <<Head(sorted)>> \o InsertByTime(x, Tail(sorted))
         ELSE <<x>> \o sorted

\* sortByTime with the sort left out
sortByTime_Unsorted(s) == s

\* .sort((a, b) => a.time - b.time): Array.prototype.sort is stable
RECURSIVE sortByTime(_)
sortByTime(s) ==
    IF s = <<>> THEN <<>>
    ELSE InsertByTime(s[Len(s)], sortByTime(SubSeq(s, 1, Len(s) - 1)))

normalize(batch, sym) ==
    sortByTime(
        SelectSeq(MapBars(SelectSeq(batch, LAMBDA c : symKeep(c, sym)), sym),
                  barKeep))

---------------------------------------------------------------------------
(* Number formatting *)

\* a / b rounded to the nearest integer, halves away from zero (b > 0)
RoundDiv(a, b) ==
    IF a >= 0 THEN (2 * a + b) \div (2 * b)
    ELSE -((2 * (-a) + b) \div (2 * b))

\* Number(x).toFixed(dec): the decimal string, as the integer count of
\* 10^-dec units it denotes; "NaN" for NaN
toFixed(x, dec) ==
    IF x = Nil THEN [nan |-> TRUE, units |-> 0, dec |-> dec]
    ELSE [nan |-> FALSE,
          units |-> RoundDiv(Val(x), Pow10(PriceDigits - dec)),
          dec |-> dec]

---------------------------------------------------------------------------
(* TradeMarkerAligner: App.jsx:378-408 *)

\* dayTradeKeep without the filter on the day
dayTradeKeep_AnyDay(t, day, sym) == isOanda(sym) => t.instrument = sym

\* .filter(t => t.timestamp?.startsWith(candlesDay))
\* .filter(t => isOanda ? t.instrument === instrument : true)
dayTradeKeep(t, day, sym) ==
    /\ StartsWith(t.timestamp, day)
    /\ (isOanda(sym) => t.instrument = sym)

dayTradesOf(list, day, sym) == SelectSeq(list, LAMBDA t : dayTradeKeep(t, day, sym))

\* closer taking the later bar when the two are at the same distance
closer_LaterOnTie(prev, curr, ts) ==
    IF ts # Nil /\ Abs(curr - Val(ts)) <= Abs(prev - Val(ts)) THEN curr ELSE prev

\* Math.abs(curr - ts) < Math.abs(prev - ts) ? curr : prev   (false when ts is NaN)
closer(prev, curr, ts) ==
    IF ts # Nil /\ Abs(curr - Val(ts)) < Abs(prev - Val(ts)) THEN curr ELSE prev

RECURSIVE reduceCloser(_, _, _)
reduceCloser(acc, times, ts) ==
    IF times = <<>> THEN acc
    ELSE reduceCloser(closer(acc, Head(times), ts), Tail(times), ts)

\* candleTimes.reduce((prev, curr) => ...): no initial value, candleTimes non-empty
snapToCandle(candleTimes, ts) == reduceCloser(Head(candleTimes), Tail(candleTimes), ts)

\* Math.floor(new Date(t.timestamp).getTime() / 1000)
tradeSeconds(t) ==
    IF DateParse(t.timestamp) = Nil THEN Nil
    ELSE Some(FloorSeconds(Val(DateParse(t.timestamp))))

\* markerOf with the two sides exchanged
markerOf_Swapped(t, candleTimes, dec) ==
    [time     |-> Some(snapToCandle(candleTimes, tradeSeconds(t))),
     position |-> IF t.direction = "LONG" THEN "aboveBar" ELSE "belowBar",
     color    |-> IF t.direction = "LONG" THEN "#26a69a" ELSE "#ef5350",
     shape    |-> IF t.direction = "LONG" THEN "arrowUp" ELSE "arrowDown",
     text     |-> [direction |-> t.direction,
                   price |-> toFixed(OrElse(t.fill_price, t.entry), dec)]]

markerOf(t, candleTimes, dec) ==
    [time     |-> Some(snapToCandle(candleTimes, tradeSeconds(t))),
     position |-> IF t.direction = "LONG" THEN "belowBar" ELSE "aboveBar",
     color    |-> IF t.direction = "LONG" THEN "#26a69a" ELSE "#ef5350",
     shape    |-> IF t.direction = "LONG" THEN "arrowUp" ELSE "arrowDown",
     text     |-> [direction |-> t.direction,
                   price |-> toFixed(OrElse(t.fill_price, t.entry), dec)]]

RECURSIVE MapMarkers(_, _, _)
MapMarkers(list, candleTimes, dec) ==
    IF list = <<>> THEN <<>>
    ELSE <<markerOf(Head(list), candleTimes, dec)>>
         \o MapMarkers(Tail(list), candleTimes, dec)

\* markersOf with the markers left in the order of the trade list
markersOf_Unsorted(dayTrades, candleTimes, dec) ==
    MapMarkers(dayTrades, candleTimes, dec)

\* dayTrades.map(...).sort((a, b) => a.time - b.time), App.jsx:387-397
markersOf(dayTrades, candleTimes, dec) ==
    sortByTime(MapMarkers(dayTrades, candleTimes, dec))

Line(title, price) == [title |-> title, price |-> price]

\* the createPriceLine calls of one trade, in order
tradeLines(t) ==
    (IF t.fill_price # Nil THEN <<Line("Entry", t.fill_price)>> ELSE <<>>)
    \o (IF t.sl # Nil THEN <<Line("SL", t.sl)>> ELSE <<>>)
    \o (IF t.tp # Nil THEN <<Line("TP", t.tp)>> ELSE <<>>)

RECURSIVE linesOf(_)
linesOf(dayTrades) ==
    IF dayTrades = <<>> THEN <<>>
    ELSE tradeLines(Head(dayTrades)) \o linesOf(Tail(dayTrades))

RECURSIVE TimesOf(_)
TimesOf(data) ==
    IF data = <<>> THEN <<>> ELSE <<Val(Head(data).time)>> \o TimesOf(Tail(data))

\* opening range lines, App.jsx:371-375
orLinesOf(orData) ==
    IF orData = Nil THEN <<>>
    ELSE <<Line("OR High", Val(orData).high), Line("OR Low", Val(orData).low)>>

---------------------------------------------------------------------------
(* CursorLegendTracker: updateLegend, App.jsx:412-442 *)

\* the decimal digits of a / b after the integer part, k of them, then the
\* remainder (0 <= a < b): long division, so that no product overflows
RECURSIVE FracDigits(_, _, _)
FracDigits(a, b, k) ==
    IF k = 0 THEN [q |-> 0, r |-> a]
    ELSE LET d    == (a * 10) \div b
             rest == FracDigits((a * 10) % b, b, k - 1)
         IN  [q |-> d * Pow10(k - 1) + rest.q, r |-> rest.r]

\* a / b * 10^k rounded to the nearest integer, for a >= 0 and b > 0
ScaledDiv(a, b, k) ==
    LET f == FracDigits(a % b, b, k)
    IN  (a \div b) * Pow10(k) + f.q + (IF 2 * f.r >= b THEN 1 ELSE 0)

\* ((close - prevClose) / prevClose * 100).toFixed(2), in hundredths of a percent
pctOf(close, prevClose) ==
    IF prevClose = Nil THEN [kind |-> "NaN", v |-> 0]
    ELSE IF Val(prevClose) = 0
         THEN IF Val(close) = 0 THEN [kind |-> "NaN", v |-> 0]
              ELSE IF Val(close) > 0 THEN [kind |-> "Infinity", v |-> 0]
              ELSE [kind |-> "-Infinity", v |-> 0]
    ELSE LET diff == Val(close) - Val(prevClose)
             neg  == (diff < 0) # (Val(prevClose) < 0)
             mag  == ScaledDiv(Abs(diff), Abs(Val(prevClose)), 4)
         IN  [kind |-> "number", v |-> IF neg THEN -mag ELSE mag]

\* pct >= 0 on the string pct: false for "NaN" and for negative numbers
pctNonNegative(pct) ==
    \/ pct.kind = "Infinity"
    \/ pct.kind = "number" /\ pct.v >= 0

\* data.findIndex(d => d.time === bar.time)
findIndexByTime(data, time) ==
    CHOOSE i \in 1..Len(data) :
        /\ data[i].time = time
        /\ \A j \in 1..(i - 1) : data[j].time # time

\* the legend as created at App.jsx:317-329: four '-' values, empty change
emptyLegend == [spans |-> <<Nil, Nil, Nil, Nil>>, cls |-> "", change |-> Nil, threw |-> FALSE]

isUp_Strict(bar) == bar.close # Nil /\ bar.open # Nil /\ Val(bar.close) > Val(bar.open)

\* bar.close >= bar.open, false when either is undefined
isUp(bar) == bar.close # Nil /\ bar.open # Nil /\ Val(bar.close) >= Val(bar.open)

\* hover is Nil (no param, or no bar for the series) or <<i>>, the index in
\* data of the bar under the crosshair
barOf_AlwaysLast(hover, data) == data[Len(data)]

\* bar = param.seriesData.get(series), and data[data.length - 1] without it
barOf(hover, data) == IF hover # Nil THEN data[Val(hover)] ELSE data[Len(data)]

updateLegend(legend, hover, data, dec) ==
    LET bar  == barOf(hover, data)
        cls  == IF isUp(bar) THEN "up" ELSE "down"
        ohlc == <<bar.open, bar.high, bar.low, bar.close>>
        \* x.toFixed throws a TypeError on undefined: the spans before it are written
        bad  == {i \in 1..4 : ohlc[i] = Nil}
        stop == IF bad = {} THEN 5 ELSE CHOOSE i \in bad : \A j \in bad : i <= j
        spans == [i \in 1..4 |->
                    IF i < stop THEN Some(toFixed(ohlc[i], dec)) ELSE legend.spans[i]]
        idx  == IF hover # Nil THEN findIndexByTime(data, bar.time) ELSE Len(data)
        prevClose == IF idx > 1 THEN data[idx - 1].close ELSE bar.open
        pct  == pctOf(bar.close, prevClose)
    IN  IF stop <= 4
        THEN [spans |-> spans, cls |-> IF stop > 1 THEN cls ELSE legend.cls,
              change |-> legend.change, threw |-> TRUE]
        ELSE [spans |-> spans, cls |-> cls,
              change |-> IF Len(data) > 1
                         THEN Some([pct  |-> pct,
                                    sign |-> IF pctNonNegative(pct) THEN "+" ELSE "",
                                    cls  |-> IF pctNonNegative(pct) THEN "up" ELSE "down"])
                         ELSE legend.change,
              threw |-> FALSE]

---------------------------------------------------------------------------
(* The chart effect, App.jsx:292-459 *)

\* minMove in units of 10^-PriceDigits
minMoveOf(dec) ==
    IF dec = 5 THEN 1 ELSE IF dec = 3 THEN 100 ELSE IF dec = 2 THEN 1000 ELSE 10000

\* nothing on the rendering surface
NoChart ==
    [alive |-> FALSE, threw |-> FALSE, precision |-> 0, minMove |-> 0, data |-> <<>>,
     orLines |-> <<>>, markers |-> <<>>, lines |-> <<>>, legend |-> emptyLegend,
     crosshair |-> Nil, cleanup |-> FALSE]

chartEffect(tab, cData, orData, tData, day, sym) ==
    IF tab # "market" \/ cData = Nil \/ Val(cData) = <<>> THEN NoChart
    ELSE
    LET dec  == currentInstrument(sym).decimals
        data == normalize(Val(cData), sym)
        dayTrades == IF tData = Nil THEN <<>> ELSE dayTradesOf(Val(tData), day, sym)
    IN  IF data = <<>> THEN NoChart
        ELSE [alive     |-> TRUE,
              \* updateLegend(null) at App.jsx:447 runs inside the effect
              threw     |-> updateLegend(emptyLegend, Nil, data, dec).threw,
              precision |-> dec,
              minMove   |-> minMoveOf(dec),
              data      |-> data,
              orLines   |-> orLinesOf(orData),
              markers   |-> markersOf(dayTrades, TimesOf(data), dec),
              lines     |-> linesOf(dayTrades),
              legend    |-> updateLegend(emptyLegend, Nil, data, dec),
              \* the bar under the crosshair: none on a new chart
              crosshair |-> Nil,
              \* the effect returns its cleanup (App.jsx:458) when it gets
              \* past updateLegend(null)
              cleanup   |-> ~updateLegend(emptyLegend, Nil, data, dec).threw]

---------------------------------------------------------------------------
(* Upstream payloads *)

Raw(sym, s, time, o, open, h, high, l, low, c, close) ==
    [sym |-> sym, s |-> s, time |-> time, o |-> o, open |-> open, h |-> h,
     high |-> high, l |-> l, low |-> low, c |-> c, close |-> close]

\* an index-feed record keyed s/o/h/l/c
PolygonRec(sym, s, o, h, l, c) == Raw(sym, s, Nil, o, Nil, h, Nil, l, Nil, c, Nil)

\* a currency-feed record keyed time/o/h/l/c
OandaRec(time, o, h, l, c) == Raw("", Nil, time, o, Nil, h, Nil, l, Nil, c, Nil)

Trade(ts, instr, dir, fill, entry, sl, tp) ==
    [timestamp |-> ts, instrument |-> instr, direction |-> dir,
     fill_price |-> fill, entry |-> entry, sl |-> sl, tp |-> tp]

emptyPanel == [data |-> Nil, loading |-> FALSE, error |-> Nil]

Days == {Day1, Day2}

\* the index feed answers /api/candles?day= with the bars of every index
ServerPolygonBatch(day) ==
    << PolygonRec("I:SPX", Some(EpochMs(day, 600, 0)),
                  Some(10070000), Some(10200000), Some(10000000), Some(10100000)),
       PolygonRec("I:NDX", Some(EpochMs(day, 300, 0)),
                  Some(20000000), Some(20100000), Some(19900000), Some(20050000)),
       PolygonRec("I:SPX", Some(EpochMs(day, 300, 0)),
                  Some(10000000), Some(10100000), Some(9900000), Some(10050000)) >>

ServerOandaBatch(day) ==
    << OandaRec(Some(Iso(day, 300 * MsPerSecond)),
                Some(108000), Some(108100), Some(107900), Some(108050)),
       OandaRec(Some(Iso(day, 600 * MsPerSecond)),
                Some(108050), Some(108200), Some(108000), Some(108100)) >>

ServerCandles(req) ==
    IF req.feed = "oanda" THEN {ServerOandaBatch(req.day), <<>>}
    ELSE {ServerPolygonBatch(req.day), <<>>}

\* {high, low, ...} or null
ServerOpeningRange(req) ==
    {Some([high |-> Some(10100000), low |-> Some(9900000)]), Nil}

ServerTrades ==
    { << Trade(Some(Iso(Day1, 310 * MsPerSecond)), "SPX500_USD", "LONG",
               Some(10070000), Some(10070000), Some(10000000), Some(10200000)),
         Trade(Some(Iso(Day1, 601 * MsPerSecond)), "EUR_USD", "SHORT",
               Some(108060), Nil, Nil, Some(107000)) >> }

---------------------------------------------------------------------------
(* State machine *)

\* symbols offered by the instrument <select>, App.jsx:855-859
Syms == {"SPX", "EUR_USD"}

\* values of the date <input>, App.jsx:864 ('' when cleared)
DayInputs == Days \cup {""}

\* tabs: the market tab holds the chart container, the positions tab the
\* trade history and its load button
Tabs == {"market", "positions"}

MaxPending == 3

Fetch(kind, feed, day, instr) == [kind |-> kind, feed |-> feed, day |-> day, instr |-> instr]

Key(day, instr) == Some([day |-> day, instr |-> instr])

\* every request loadMarketData and loadTrades can issue
Requests ==
    {Fetch("candles", IF isOanda(s) THEN "oanda" ELSE "polygon", d, s) : d \in Days, s \in Syms}
    \cup {Fetch("openingRange", "polygon", d, s) : d \in Days, s \in Syms}
    \cup {Fetch("trades", "", "", "")}

One(f) == SetToBag({f})

RECURSIVE BagOfSeq(_)
BagOfSeq(fs) == IF fs = <<>> THEN EmptyBag ELSE One(Head(fs)) (+) BagOfSeq(Tail(fs))

\* the effect's dependency list is [activeTab, candles.data, openingRange.data,
\* trades.data, candlesDay, instrument] (App.jsx:459): it re-runs, after its
\* cleanup, when one of them changed, and otherwise the chart stays as it is
Render(depsChanged) ==
    chart' = IF depsChanged
             THEN chartEffect(activeTab', candles'.data, openingRange'.data,
                              trades'.data, candlesDay', instrument')
             ELSE chart

\* an error thrown by the effect unmounts the application
Running == ~chart.threw

\* the single address the auth callback lets in, App.jsx:276
AuthorisedEmail == "vincent.porret@hotmail.com"

\* useState({ value: 50, saving: false, loaded: false }), App.jsx:65
DefaultRiskChf == 50

\* the dashboard of the signed-in owner once the loads of the mount effect
\* (App.jsx:264-269) and of the auth callback (App.jsx:277-279) have settled
DashSettled ==
    /\ user = Some(AuthorisedEmail)
    /\ authError = ""
    /\ account = Some(AuthorisedEmail)
    /\ authEvents = <<>>
    /\ strategies = [data |-> Some("strategies"), loading |-> FALSE, error |-> Nil]
    /\ balance = [data |-> Some("balance"), loading |-> FALSE, error |-> Nil]
    /\ expandedTradeId = Nil
    /\ tradeEvents = [data |-> Nil, loading |-> FALSE]
    /\ riskChf = [value |-> Some(DefaultRiskChf), saving |-> FALSE, loaded |-> TRUE]
    /\ lastSaveRisk = "none"
    /\ requests = EmptyBag

Init ==
    /\ DashSettled
    /\ activeTab = "market"
    /\ instrument = "SPX"
    /\ candlesDay \in Days
    /\ candles = emptyPanel
    /\ openingRange = emptyPanel
    /\ trades = emptyPanel
    /\ pending = EmptyBag
    /\ applied = [candles |-> Nil, openingRange |-> Nil]
    /\ chart = NoChart

\* navigate(`/${tab.key}`), App.jsx:1186
SwitchTab(t) ==
    /\ Running
    /\ UNCHANGED dashVars
    /\ t # activeTab
    /\ activeTab' = t
    /\ UNCHANGED <<instrument, candlesDay, candles, openingRange, trades, pending, applied>>
    /\ Render(TRUE)

\* onChange of the instrument <select>, App.jsx:855
SetInstrument(s) ==
    /\ Running
    /\ UNCHANGED dashVars
    /\ activeTab = "market"
    /\ s # instrument
    /\ instrument' = s
    /\ UNCHANGED <<activeTab, candlesDay, candles, openingRange, trades, pending, applied>>
    /\ Render(TRUE)

\* onChange of the date <input>, App.jsx:864
SetCandlesDay(d) ==
    /\ Running
    /\ UNCHANGED dashVars
    /\ activeTab = "market"
    /\ d # candlesDay
    /\ candlesDay' = d
    /\ UNCHANGED <<activeTab, instrument, candles, openingRange, trades, pending, applied>>
    /\ Render(TRUE)

\* loadTrades up to its await, App.jsx:170-173
loadTradesStart(panel) == [panel EXCEPT !.loading = TRUE, !.error = Nil]

\* loadMarketData, App.jsx:221-242, behind its button (disabled while candles.loading)
LoadMarketData ==
    /\ Running
    /\ UNCHANGED dashVars
    /\ activeTab = "market"
    /\ ~candles.loading
    /\ candlesDay # ""
    /\ LET oanda   == currentInstrument(instrument).source = "oanda"
           cFetch  == Fetch("candles", IF oanda THEN "oanda" ELSE "polygon",
                            candlesDay, instrument)
           orFetch == IF oanda THEN <<>>
                      ELSE <<Fetch("openingRange", "polygon", candlesDay, instrument)>>
           tFetch  == IF trades.data = Nil
                      THEN <<Fetch("trades", "", "", "")>> ELSE <<>>
       IN  /\ BagCardinality(pending) + 1 + Len(orFetch) + Len(tFetch) <= MaxPending
           /\ candles' = [candles EXCEPT !.loading = TRUE, !.error = Nil]
           /\ openingRange' = IF oanda THEN emptyPanel
                              ELSE [openingRange EXCEPT !.loading = TRUE, !.error = Nil]
           /\ applied' = IF oanda THEN [applied EXCEPT !.openingRange = Nil] ELSE applied
           /\ trades' = IF trades.data = Nil THEN loadTradesStart(trades) ELSE trades
           /\ pending' = pending (+) BagOfSeq(<<cFetch>> \o orFetch \o tFetch)
           /\ UNCHANGED <<activeTab, instrument, candlesDay>>
           /\ Render(oanda /\ openingRange.data # Nil)

\* the trade history's load button, App.jsx:584
LoadTrades ==
    /\ Running
    /\ UNCHANGED dashVars
    /\ activeTab = "positions"
    /\ ~trades.loading
    /\ BagCardinality(pending) < MaxPending
    /\ trades' = loadTradesStart(trades)
    /\ pending' = pending (+) One(Fetch("trades", "", "", ""))
    /\ UNCHANGED <<activeTab, instrument, candlesDay, candles, openingRange, applied>>
    /\ Render(FALSE)

\* .then(data => setCandles({data, loading: false, error: null})), App.jsx:227, 232
CandlesResolve(f) ==
    /\ Running
    /\ UNCHANGED dashVars
    /\ BagIn(f, pending)
    /\ f.kind = "candles"
    /\ \E batch \in ServerCandles(f) :
          candles' = [data |-> Some(batch), loading |-> FALSE, error |-> Nil]
    /\ applied' = [applied EXCEPT !.candles = Key(f.day, f.instr)]
    /\ pending' = pending (-) One(f)
    /\ UNCHANGED <<activeTab, instrument, candlesDay, openingRange, trades>>
    /\ Render(TRUE)

\* .catch(err => setCandles({data: null, loading: false, error: err.message}))
CandlesReject(f) ==
    /\ Running
    /\ UNCHANGED dashVars
    /\ BagIn(f, pending)
    /\ f.kind = "candles"
    /\ candles' = [data |-> Nil, loading |-> FALSE, error |-> Some("error")]
    /\ applied' = [applied EXCEPT !.candles = Nil]
    /\ pending' = pending (-) One(f)
    /\ UNCHANGED <<activeTab, instrument, candlesDay, openingRange, trades>>
    /\ Render(candles.data # Nil)

\* .then(data => setOpeningRange({data, loading: false, error: null})), App.jsx:237
OpeningRangeResolve(f) ==
    /\ Running
    /\ UNCHANGED dashVars
    /\ BagIn(f, pending)
    /\ f.kind = "openingRange"
    /\ \E orData \in ServerOpeningRange(f) :
          /\ openingRange' = [data |-> orData, loading |-> FALSE, error |-> Nil]
          /\ applied' = [applied EXCEPT !.openingRange =
                            IF orData = Nil THEN Nil
                            ELSE Key(f.day, f.instr)]
    /\ pending' = pending (-) One(f)
    /\ UNCHANGED <<activeTab, instrument, candlesDay, candles, trades>>
    /\ Render(openingRange.data # Nil \/ openingRange'.data # Nil)

\* .catch(() => setOpeningRange({data: null, loading: false, error: null})), App.jsx:238
OpeningRangeReject(f) ==
    /\ Running
    /\ UNCHANGED dashVars
    /\ BagIn(f, pending)
    /\ f.kind = "openingRange"
    /\ openingRange' = emptyPanel
    /\ applied' = [applied EXCEPT !.openingRange = Nil]
    /\ pending' = pending (-) One(f)
    /\ UNCHANGED <<activeTab, instrument, candlesDay, candles, trades>>
    /\ Render(openingRange.data # Nil)

\* setTrades({data, loading: false, error: null}), App.jsx:174
TradesResolve(f) ==
    /\ Running
    /\ UNCHANGED dashVars
    /\ BagIn(f, pending)
    /\ f.kind = "trades"
    /\ \E list \in ServerTrades :
          trades' = [data |-> Some(list), loading |-> FALSE, error |-> Nil]
    /\ pending' = pending (-) One(f)
    /\ UNCHANGED <<activeTab, instrument, candlesDay, candles, openingRange, applied>>
    /\ Render(TRUE)

\* setTrades({data: null, loading: false, error: err.message}), App.jsx:176
TradesReject(f) ==
    /\ Running
    /\ UNCHANGED dashVars
    /\ BagIn(f, pending)
    /\ f.kind = "trades"
    /\ trades' = [data |-> Nil, loading |-> FALSE, error |-> Some("error")]
    /\ pending' = pending (-) One(f)
    /\ UNCHANGED <<activeTab, instrument, candlesDay, candles, openingRange, applied>>
    /\ Render(trades.data # Nil)

\* chart.subscribeCrosshairMove(updateLegend), App.jsx:444
CrosshairMove(hover) ==
    /\ Running
    /\ UNCHANGED dashVars
    /\ chart.alive
    /\ IF hover = Nil THEN TRUE ELSE Val(hover) \in 1..Len(chart.data)
    /\ chart' = [chart EXCEPT
                    !.legend = updateLegend(chart.legend, hover, chart.data, chart.precision),
                    !.crosshair = hover]
    /\ UNCHANGED <<activeTab, instrument, candlesDay, candles, openingRange, trades,
                   pending, applied>>

Next ==
    \/ \E t \in Tabs : SwitchTab(t)
    \/ \E s \in Syms : SetInstrument(s)
    \/ \E d \in DayInputs : SetCandlesDay(d)
    \/ LoadMarketData
    \/ LoadTrades
    \/ \E f \in Requests :
          \/ CandlesResolve(f)
          \/ CandlesReject(f)
          \/ OpeningRangeResolve(f)
          \/ OpeningRangeReject(f)
          \/ TradesResolve(f)
          \/ TradesReject(f)
    \/ \E h \in {Nil} \cup {Some(i) : i \in 1..Len(chart.data)} : CrosshairMove(h)

Spec == Init /\ [][Next]_vars

---------------------------------------------------------------------------
(* The pipeline on arbitrary upstream payloads: the panels hold any batch  *)
(* and any trade list the backend may have answered, the user is on the    *)
(* positions tab, and opening the market tab runs the chart effect.        *)

PipeSyms == {"SPX", "NDX", "EUR_USD", "USD_JPY"}

\* prices of a well-formed bar: 100.0 / 101.0 / 99.0 / 100.5
FullO == Some(10000000)

FullH == Some(10100000)

FullL == Some(9900000)

FullC == Some(10050000)

PipeRecords ==
    { \* index feed, tagged, short keys
      PolygonRec("I:SPX", Some(EpochMs(Day1, 300, 0)), FullO, FullH, FullL, FullC),
      \* sub-second part of s is floored away
      PolygonRec("I:SPX", Some(EpochMs(Day1, 600, 999)), FullC, Some(10200000), FullO, FullH),
      \* tagged for another symbol
      PolygonRec("I:NDX", Some(EpochMs(Day1, 300, 0)),
                 Some(20000000), Some(20100000), Some(19900000), Some(20050000)),
      \* untagged, long keys
      Raw("", Some(EpochMs(Day1, 900, 0)), Nil, Nil, FullO, Nil, FullH, Nil, FullL, Nil, FullC),
      \* s missing
      PolygonRec("I:SPX", Nil, FullO, FullH, FullL, FullC),
      \* s below one second
      PolygonRec("I:SPX", Some(999), FullO, FullH, FullL, FullC),
      \* open missing
      PolygonRec("I:SPX", Some(EpochMs(Day1, 1200, 0)), Nil, FullH, FullL, FullC),
      \* open only
      PolygonRec("I:SPX", Some(EpochMs(Day1, 900, 0)), FullO, Nil, Nil, Nil),
      \* o is 0 and open is not
      Raw("I:SPX", Some(EpochMs(Day1, 600, 0)), Nil, Some(0), FullO, FullH, Nil, Some(0), Nil, Some(0), Nil),
      \* currency feed, short keys
      OandaRec(Some(Iso(Day1, 300 * MsPerSecond)), FullO, FullH, FullL, FullC),
      \* long keys, milliseconds in the ISO time
      Raw("", Nil, Some(Iso(Day1, 600 * MsPerSecond + 999)),
          Nil, FullC, Nil, Some(10200000), Nil, FullO, Nil, FullH),
      \* unparsable time
      OandaRec(Some(BadTime), FullO, FullH, FullL, FullC),
      \* time missing
      OandaRec(Nil, FullO, FullH, FullL, FullC),
      \* close missing
      OandaRec(Some(Iso(Day1, 900 * MsPerSecond)), FullO, FullH, FullL, Nil) }

PipeTrades ==
    { \* 10 s after the bar at 300
      Trade(Some(Iso(Day1, 310 * MsPerSecond)), "SPX500_USD", "LONG",
            Some(10070000), Some(10070000), Some(10000000), Some(10200000)),
      \* entry without fill price, no stop-loss
      Trade(Some(Iso(Day1, 900 * MsPerSecond)), "SPX500_USD", "SHORT",
            Nil, Some(10100000), Nil, Some(9900000)),
      \* fill price alone
      Trade(Some(Iso(Day1, 901 * MsPerSecond + 500)), "EUR_USD", "LONG",
            Some(10074000), Nil, Nil, Nil),
      \* another day
      Trade(Some(Iso(Day2, 310 * MsPerSecond)), "EUR_USD", "SHORT",
            Some(10075000), Some(10075000), Some(10200000), Nil),
      \* no timestamp
      Trade(Nil, "SPX500_USD", "LONG",
            Some(10070000), Some(10070000), Some(10000000), Some(10200000)),
      \* an hour after the session's bars
      Trade(Some(Iso(Day1, 3600 * MsPerSecond)), "NAS100_USD", "SHORT",
            Some(10075000), Nil, Some(10200000), Some(9900000)),
      \* half way between the bars at 300 and 600
      Trade(Some(Iso(Day1, 450 * MsPerSecond)), "USD_JPY", "LONG",
            Nil, Nil, Nil, Nil) }

MaxBatch == 2

MaxTrades == 2

SeqsUpTo(S, n) == UNION {[1..k -> S] : k \in 0..n}

\* a batch of each feed that normalizes to bars at 300 and 600
SampleBatches ==
    { << PolygonRec("I:SPX", Some(EpochMs(Day1, 600, 999)), FullC, Some(10200000), FullO, FullH),
         PolygonRec("I:SPX", Some(EpochMs(Day1, 300, 0)), FullO, FullH, FullL, FullC) >>,
      << OandaRec(Some(Iso(Day1, 300 * MsPerSecond)), FullO, FullH, FullL, FullC),
         OandaRec(Some(Iso(Day1, 600 * MsPerSecond)), FullC, Some(10200000), FullO, FullH) >> }

SampleTrades ==
    { Nil,
      Some(<< Trade(Some(Iso(Day1, 310 * MsPerSecond)), "SPX500_USD", "LONG",
                    Some(10070000), Some(10070000), Some(10000000), Some(10200000)) >>) }

SampleOpeningRange == Some([high |-> FullH, low |-> FullL])

PipeInit ==
    /\ DashSettled
    /\ activeTab = "positions"
    /\ instrument \in PipeSyms
    /\ pending = EmptyBag
    /\ chart = NoChart
    /\ \/ /\ candlesDay = Day1
          /\ \E batch \in SeqsUpTo(PipeRecords, MaxBatch) :
                candles = [data |-> Some(batch), loading |-> FALSE, error |-> Nil]
          /\ \E t \in SampleTrades :
                trades = [data |-> t, loading |-> FALSE, error |-> Nil]
          /\ openingRange = emptyPanel
       \/ /\ candlesDay \in DayInputs
          /\ \E batch \in SampleBatches :
                candles = [data |-> Some(batch), loading |-> FALSE, error |-> Nil]
          /\ \E list \in SeqsUpTo(PipeTrades, MaxTrades) :
                trades = [data |-> Some(list), loading |-> FALSE, error |-> Nil]
          /\ \E o \in {Nil, SampleOpeningRange} :
                openingRange = [data |-> o, loading |-> FALSE, error |-> Nil]
    /\ applied = [candles |-> Key(candlesDay, instrument),
                  openingRange |-> IF openingRange.data = Nil THEN Nil
                                   ELSE Key(candlesDay, instrument)]

PipeNext ==
    \/ \E t \in Tabs : SwitchTab(t)
    \/ \E h \in {Nil} \cup {Some(i) : i \in 1..Len(chart.data)} : CrosshairMove(h)

PipeSpec == PipeInit /\ [][PipeNext]_vars

---------------------------------------------------------------------------
(* The dashboard: sign-in, and the strategies and balance panels *)

\* accounts that may sign in with the Google popup
Accounts == {AuthorisedEmail, "someone@example.com"}

NotAuthorised == "Cet utilisateur n'est pas autorise."

MaxRequests == 3

MaxAuthEvents == 2

Req(kind, arg) == [kind |-> kind, arg |-> arg]

\* setX((p) => ({ ...p, loading: true, error: null })), the first line of every loader
panelLoading(p) == [p EXCEPT !.loading = TRUE, !.error = Nil]

\* setX({ data, loading: false, error: null })
panelLoaded(data) == [data |-> Some(data), loading |-> FALSE, error |-> Nil]

\* panelFailed dropping the message
panelFailed_NoMessage(message) == [data |-> Nil, loading |-> FALSE, error |-> Nil]

\* setX({ data: null, loading: false, error: err.message })
panelFailed(message) == [data |-> Nil, loading |-> FALSE, error |-> Some(message)]

\* the mount effect has called loadStrategies and loadBalance (App.jsx:264-269)
\* and Firebase is about to report the account of the persisted session
DashInit ==
    /\ activeTab = "positions"
    /\ instrument = "SPX"
    /\ candlesDay = Day1
    /\ candles = emptyPanel
    /\ openingRange = emptyPanel
    /\ trades = emptyPanel
    /\ pending = EmptyBag
    /\ applied = [candles |-> Nil, openingRange |-> Nil]
    /\ chart = NoChart
    /\ user = Nil
    /\ authError = ""
    /\ account \in {Nil} \cup {Some(a) : a \in Accounts}
    /\ authEvents = <<account>>
    /\ strategies = panelLoading(emptyPanel)
    /\ balance = panelLoading(emptyPanel)
    /\ expandedTradeId = Nil
    /\ tradeEvents = [data |-> Nil, loading |-> FALSE]
    /\ riskChf = [value |-> Some(DefaultRiskChf), saving |-> FALSE, loaded |-> FALSE]
    /\ lastSaveRisk = "none"
    /\ requests = One(Req("strategies", "")) (+) One(Req("balance", ""))

\* signInWithPopup(auth, provider), App.jsx:1165, 1175: shown while user is null
SignIn(a) ==
    /\ user = Nil
    /\ account = Nil
    /\ Len(authEvents) < MaxAuthEvents
    /\ account' = Some(a)
    /\ authEvents' = Append(authEvents, Some(a))
    /\ UNCHANGED <<marketVars, user, authError, strategies, balance, expandedTradeId,
                   tradeEvents, riskChf, lastSaveRisk, requests>>

\* signOut(auth) behind the header button, App.jsx:1162
SignOutClick ==
    /\ user # Nil
    /\ Len(authEvents) < MaxAuthEvents
    /\ account' = Nil
    /\ authEvents' = IF account = Nil THEN authEvents ELSE Append(authEvents, Nil)
    /\ UNCHANGED <<marketVars, user, authError, strategies, balance, expandedTradeId,
                   tradeEvents, riskChf, lastSaveRisk, requests>>

\* the callback letting every signed-in account in
authorised_AnyAccount(u) == u # Nil

\* u && u.email === 'vincent.porret@hotmail.com', App.jsx:276
authorised(u) == u # Nil /\ Val(u) = AuthorisedEmail

\* the onAuthStateChanged callback, App.jsx:274-287
AuthStateChanged ==
    /\ authEvents # <<>>
    /\ LET u == Head(authEvents)
       IN  IF authorised(u)
           THEN /\ BagCardinality(requests) + 2 <= MaxRequests
                /\ authError' = ""
                /\ user' = u
                /\ strategies' = panelLoading(strategies)
                /\ balance' = panelLoading(balance)
                /\ requests' = requests (+) One(Req("strategies", "")) (+) One(Req("balance", ""))
                /\ authEvents' = Tail(authEvents)
                /\ UNCHANGED account
           ELSE IF u # Nil
           THEN /\ authError' = NotAuthorised
                \* signOut(auth): Firebase drops the account and reports null
                /\ account' = Nil
                /\ authEvents' = IF account = Nil THEN Tail(authEvents)
                                  ELSE Append(Tail(authEvents), Nil)
                /\ user' = Nil
                /\ UNCHANGED <<strategies, balance, requests>>
           ELSE /\ authError' = ""
                /\ user' = Nil
                /\ authEvents' = Tail(authEvents)
                /\ UNCHANGED <<account, strategies, balance, requests>>
    /\ UNCHANGED <<marketVars, expandedTradeId, tradeEvents, riskChf, lastSaveRisk>>

\* loadStrategies behind its button, App.jsx:700 (disabled while loading)
LoadStrategies ==
    /\ user # Nil
    /\ ~strategies.loading
    /\ BagCardinality(requests) < MaxRequests
    /\ strategies' = panelLoading(strategies)
    /\ requests' = requests (+) One(Req("strategies", ""))
    /\ UNCHANGED <<marketVars, user, authError, account, authEvents, balance,
                   expandedTradeId, tradeEvents, riskChf, lastSaveRisk>>

\* setStrategies({ data, loading: false, error: null }), App.jsx:91
StrategiesResolve ==
    /\ BagIn(Req("strategies", ""), requests)
    /\ strategies' = panelLoaded("strategies")
    /\ requests' = requests (-) One(Req("strategies", ""))
    /\ UNCHANGED <<marketVars, user, authError, account, authEvents, balance,
                   expandedTradeId, tradeEvents, riskChf, lastSaveRisk>>

\* setStrategies({ data: null, loading: false, error: err.message }), App.jsx:93
StrategiesReject ==
    /\ BagIn(Req("strategies", ""), requests)
    /\ strategies' = panelFailed("load")
    /\ requests' = requests (-) One(Req("strategies", ""))
    /\ UNCHANGED <<marketVars, user, authError, account, authEvents, balance,
                   expandedTradeId, tradeEvents, riskChf, lastSaveRisk>>

\* toggleStrategy(name) up to its first await, App.jsx:97-103; the buttons
\* exist for the entries of strategies.data and are disabled while loading
ToggleStrategy ==
    /\ user # Nil
    /\ strategies.data # Nil
    /\ ~strategies.loading
    /\ BagCardinality(requests) < MaxRequests
    /\ strategies' = panelLoading(strategies)
    /\ requests' = requests (+) One(Req("toggle", ""))
    /\ UNCHANGED <<marketVars, user, authError, account, authEvents, balance,
                   expandedTradeId, tradeEvents, riskChf, lastSaveRisk>>

\* the POST succeeded: await loadStrategies(), App.jsx:105
ToggleResolve ==
    /\ BagIn(Req("toggle", ""), requests)
    /\ strategies' = panelLoading(strategies)
    /\ requests' = (requests (-) One(Req("toggle", ""))) (+) One(Req("strategies", ""))
    /\ UNCHANGED <<marketVars, user, authError, account, authEvents, balance,
                   expandedTradeId, tradeEvents, riskChf, lastSaveRisk>>

\* the catch of toggleStrategy: the previous data is kept
toggleFailed(p, message) == [p EXCEPT !.loading = FALSE, !.error = Some(message)]

\* setStrategies((p) => ({ ...p, loading: false, error: err.message })), App.jsx:107
ToggleReject ==
    /\ BagIn(Req("toggle", ""), requests)
    /\ strategies' = toggleFailed(strategies, "toggle")
    /\ requests' = requests (-) One(Req("toggle", ""))
    /\ UNCHANGED <<marketVars, user, authError, account, authEvents, balance,
                   expandedTradeId, tradeEvents, riskChf, lastSaveRisk>>

\* loadBalance behind its button, App.jsx:474 (disabled while loading)
LoadBalance ==
    /\ user # Nil
    /\ ~balance.loading
    /\ BagCardinality(requests) < MaxRequests
    /\ balance' = panelLoading(balance)
    /\ requests' = requests (+) One(Req("balance", ""))
    /\ UNCHANGED <<marketVars, user, authError, account, authEvents, strategies,
                   expandedTradeId, tradeEvents, riskChf, lastSaveRisk>>

\* setBalance({ data, loading: false, error: null }), App.jsx:139
BalanceResolve ==
    /\ BagIn(Req("balance", ""), requests)
    /\ balance' = panelLoaded("balance")
    /\ requests' = requests (-) One(Req("balance", ""))
    /\ UNCHANGED <<marketVars, user, authError, account, authEvents, strategies,
                   expandedTradeId, tradeEvents, riskChf, lastSaveRisk>>

\* setBalance({ data: null, loading: false, error: err.message }), App.jsx:141
BalanceReject ==
    /\ BagIn(Req("balance", ""), requests)
    /\ balance' = panelFailed("load")
    /\ requests' = requests (-) One(Req("balance", ""))
    /\ UNCHANGED <<marketVars, user, authError, account, authEvents, strategies,
                   expandedTradeId, tradeEvents, riskChf, lastSaveRisk>>

\* {!user ? <login page> : <tabs and content>}, App.jsx:1170-1197
dashboardRendered == user # Nil

DashNext ==
    \/ \E a \in Accounts : SignIn(a)
    \/ SignOutClick
    \/ AuthStateChanged
    \/ LoadStrategies
    \/ StrategiesResolve
    \/ StrategiesReject
    \/ ToggleStrategy
    \/ ToggleResolve
    \/ ToggleReject
    \/ LoadBalance
    \/ BalanceResolve
    \/ BalanceReject

DashSpec == DashInit /\ [][DashNext]_vars

---------------------------------------------------------------------------
(* The trade history: the events panel of the expanded trade *)

\* oanda_trade_id of the rows of the trade history
TradeIds == {"101", "102"}

\* the events the backend answers for a trade
eventsOf(id) == <<[trade_id |-> id, type |-> "ORDER_FILL"]>>

\* the owner is signed in, the dashboard loads have settled and the trade
\* history is loaded on the positions tab
EventsInit ==
    /\ DashSettled
    /\ activeTab = "positions"
    /\ instrument = "SPX"
    /\ candlesDay = Day1
    /\ candles = emptyPanel
    /\ openingRange = emptyPanel
    /\ \E list \in ServerTrades :
          trades = [data |-> Some(list), loading |-> FALSE, error |-> Nil]
    /\ pending = EmptyBag
    /\ applied = [candles |-> Nil, openingRange |-> Nil]
    /\ chart = NoChart

\* toggleTradeEvents(oandaTradeId, docPath) up to its await, App.jsx:192-201
ToggleTradeEvents(id) ==
    /\ Running
    /\ activeTab = "positions"
    /\ trades.data # Nil
    /\ IF expandedTradeId = Some(id)
       THEN /\ expandedTradeId' = Nil
            /\ tradeEvents' = [data |-> Nil, loading |-> FALSE]
            /\ UNCHANGED requests
       ELSE /\ BagCardinality(requests) < MaxRequests
            /\ expandedTradeId' = Some(id)
            /\ tradeEvents' = [data |-> Nil, loading |-> TRUE]
            /\ requests' = requests (+) One(Req("events", id))
    /\ UNCHANGED <<marketVars, user, authError, account, authEvents, strategies,
                   balance, riskChf, lastSaveRisk>>

\* setTradeEvents({ data, loading: false }), App.jsx:203
TradeEventsResolve(id) ==
    /\ Running
    /\ BagIn(Req("events", id), requests)
    /\ tradeEvents' = [data |-> Some(eventsOf(id)), loading |-> FALSE]
    /\ requests' = requests (-) One(Req("events", id))
    /\ UNCHANGED <<marketVars, user, authError, account, authEvents, strategies,
                   balance, riskChf, lastSaveRisk, expandedTradeId>>

\* catch { setTradeEvents({ data: [], loading: false }) }, App.jsx:205
TradeEventsReject(id) ==
    /\ Running
    /\ BagIn(Req("events", id), requests)
    /\ tradeEvents' = [data |-> Some(<<>>), loading |-> FALSE]
    /\ requests' = requests (-) One(Req("events", id))
    /\ UNCHANGED <<marketVars, user, authError, account, authEvents, strategies,
                   balance, riskChf, lastSaveRisk, expandedTradeId>>

\* deleteTrade(docPath) up to its await, behind the button of the expanded
\* row (App.jsx:640) and its confirm(), App.jsx:180-183
DeleteTrade(id) ==
    /\ Running
    /\ activeTab = "positions"
    /\ trades.data # Nil
    /\ expandedTradeId = Some(id)
    /\ BagCardinality(requests) < MaxRequests
    /\ requests' = requests (+) One(Req("delete", id))
    /\ UNCHANGED <<marketVars, user, authError, account, authEvents, strategies,
                   balance, riskChf, lastSaveRisk, expandedTradeId, tradeEvents>>

\* the DELETE succeeded: the row is collapsed and loadTrades() called, App.jsx:184-186
DeleteTradeResolve(id) ==
    /\ Running
    /\ BagIn(Req("delete", id), requests)
    /\ BagCardinality(pending) < MaxPending
    /\ expandedTradeId' = Nil
    /\ tradeEvents' = [data |-> Nil, loading |-> FALSE]
    /\ trades' = loadTradesStart(trades)
    /\ pending' = pending (+) One(Fetch("trades", "", "", ""))
    /\ requests' = requests (-) One(Req("delete", id))
    /\ UNCHANGED <<activeTab, instrument, candlesDay, candles, openingRange, applied, chart>>
    /\ UNCHANGED <<user, authError, account, authEvents, strategies, balance, riskChf, lastSaveRisk>>

\* catch (err) { alert(...) }, App.jsx:187-189
DeleteTradeReject(id) ==
    /\ Running
    /\ BagIn(Req("delete", id), requests)
    /\ requests' = requests (-) One(Req("delete", id))
    /\ UNCHANGED <<marketVars, user, authError, account, authEvents, strategies,
                   balance, riskChf, lastSaveRisk, expandedTradeId, tradeEvents>>

EventsNext ==
    \/ \E id \in TradeIds :
          \/ ToggleTradeEvents(id)
          \/ TradeEventsResolve(id)
          \/ TradeEventsReject(id)
          \/ DeleteTrade(id)
          \/ DeleteTradeResolve(id)
          \/ DeleteTradeReject(id)
    \/ TradesResolve(Fetch("trades", "", "", ""))
    \/ TradesReject(Fetch("trades", "", "", ""))

EventsSpec == EventsInit /\ [][EventsNext]_vars

---------------------------------------------------------------------------
(* The risk setting: loadRisk and saveRisk, App.jsx:111-133 *)

\* Number(e.target.value) of the amount <input type="number">: '' gives 0
RiskInputs == {Some(0 - 5), Some(0), Some(25), Some(100)}

\* data.risk_chf of GET /api/config/risk: a number, or undefined
ServerRisk == {Some(75), Nil}

\* the mount effect has called loadRisk (App.jsx:267); the owner is signed in
RiskInit ==
    /\ activeTab = "positions"
    /\ instrument = "SPX"
    /\ candlesDay = Day1
    /\ candles = emptyPanel
    /\ openingRange = emptyPanel
    /\ trades = emptyPanel
    /\ pending = EmptyBag
    /\ applied = [candles |-> Nil, openingRange |-> Nil]
    /\ chart = NoChart
    /\ user = Some(AuthorisedEmail)
    /\ authError = ""
    /\ account = Some(AuthorisedEmail)
    /\ authEvents = <<>>
    /\ strategies = panelLoaded("strategies")
    /\ balance = panelLoaded("balance")
    /\ expandedTradeId = Nil
    /\ tradeEvents = [data |-> Nil, loading |-> FALSE]
    /\ riskChf = [value |-> Some(DefaultRiskChf), saving |-> FALSE, loaded |-> FALSE]
    /\ lastSaveRisk = "none"
    /\ requests = One(Req("riskGet", ""))

\* onChange of the amount input, App.jsx:737
SetRiskValue(v) ==
    /\ user # Nil
    /\ v # riskChf.value
    /\ riskChf' = [riskChf EXCEPT !.value = v]
    /\ UNCHANGED <<marketVars, user, authError, account, authEvents, strategies, balance,
                   expandedTradeId, tradeEvents, lastSaveRisk, requests>>

\* setRiskChf((p) => ({ ...p, value: data.risk_chf, loaded: true })), App.jsx:114
RiskGetResolve ==
    /\ BagIn(Req("riskGet", ""), requests)
    /\ \E v \in ServerRisk : riskChf' = [riskChf EXCEPT !.value = v, !.loaded = TRUE]
    /\ requests' = requests (-) One(Req("riskGet", ""))
    /\ UNCHANGED <<marketVars, user, authError, account, authEvents, strategies, balance,
                   expandedTradeId, tradeEvents, lastSaveRisk>>

\* catch { /* keep default */ }, App.jsx:115-117
RiskGetReject ==
    /\ BagIn(Req("riskGet", ""), requests)
    /\ requests' = requests (-) One(Req("riskGet", ""))
    /\ UNCHANGED <<marketVars, user, authError, account, authEvents, strategies, balance,
                   expandedTradeId, tradeEvents, riskChf, lastSaveRisk>>

\* validAmount without the test num <= 0
validAmount_NonZero(num) == num # Nil /\ Val(num) # 0

\* the amounts saveRisk goes on with: not (!num || num <= 0), App.jsx:122
validAmount(num) == num # Nil /\ Val(num) # 0 /\ ~(Val(num) <= 0)

\* saveRisk(riskChf.value) up to its await, behind the button disabled while
\* saving, App.jsx:120-124, 741-743
SaveRisk ==
    /\ user # Nil
    /\ ~riskChf.saving
    /\ IF validAmount(riskChf.value)
       THEN /\ BagCardinality(requests) < MaxRequests
            /\ riskChf' = [riskChf EXCEPT !.saving = TRUE]
            /\ requests' = requests (+) One(Req("riskPut", Val(riskChf.value)))
            /\ lastSaveRisk' = "sent"
       ELSE /\ lastSaveRisk' = "ignored"
            /\ UNCHANGED <<riskChf, requests>>
    /\ UNCHANGED <<marketVars, user, authError, account, authEvents, strategies, balance,
                   expandedTradeId, tradeEvents>>

\* setRiskChf({ value: num, saving: false, loaded: true }), App.jsx:129
RiskPutResolve(num) ==
    /\ BagIn(Req("riskPut", num), requests)
    /\ riskChf' = [value |-> Some(num), saving |-> FALSE, loaded |-> TRUE]
    /\ requests' = requests (-) One(Req("riskPut", num))
    /\ lastSaveRisk' = "saved"
    /\ UNCHANGED <<marketVars, user, authError, account, authEvents, strategies, balance,
                   expandedTradeId, tradeEvents>>

\* putFailed leaving the setting as the request found it
putFailed_StillSaving(p) == p

\* (p) => ({ ...p, saving: false }), App.jsx:131
putFailed(p) == [p EXCEPT !.saving = FALSE]

\* catch { setRiskChf((p) => ({ ...p, saving: false })) }, App.jsx:130-132
RiskPutReject(num) ==
    /\ BagIn(Req("riskPut", num), requests)
    /\ riskChf' = putFailed(riskChf)
    /\ requests' = requests (-) One(Req("riskPut", num))
    /\ lastSaveRisk' = "failed"
    /\ UNCHANGED <<marketVars, user, authError, account, authEvents, strategies, balance,
                   expandedTradeId, tradeEvents>>

RiskNext ==
    \/ \E v \in RiskInputs : SetRiskValue(v)
    \/ RiskGetResolve
    \/ RiskGetReject
    \/ SaveRisk
    \/ \E v \in RiskInputs \cup ServerRisk \cup {Some(DefaultRiskChf)} :
          v # Nil /\ (RiskPutResolve(Val(v)) \/ RiskPutReject(Val(v)))

RiskSpec == RiskInit /\ [][RiskNext]_vars

---------------------------------------------------------------------------
(* The loading flags under fetches that all settle: the market panels, the *)
(* strategies panel and the risk setting of the signed-in owner            *)

LiveInit ==
    /\ DashSettled
    /\ activeTab = "market"
    /\ instrument \in Syms
    /\ candlesDay = Day1
    /\ candles = emptyPanel
    /\ openingRange = emptyPanel
    /\ trades = emptyPanel
    /\ pending = EmptyBag
    /\ applied = [candles |-> Nil, openingRange |-> Nil]
    /\ chart = NoChart

\* the promise of a fetch of the market tab settles and its .then or .catch
\* (or the try/catch of loadTrades) runs: App.jsx:226-228, 231-233, 236-238,
\* 172-177; the step is CandlesResolve or CandlesReject for "candles", and
\* so on, whatever the chart effect draws after it
Settled(kind) ==
    \E f \in Requests :
       /\ Running
       /\ f.kind = kind
       /\ BagIn(f, pending)
       /\ pending' = pending (-) One(f)

\* the await of loadStrategies returns or throws, App.jsx:89-94
StrategiesSettle == StrategiesResolve \/ StrategiesReject

\* the POST of toggleStrategy returns or throws, App.jsx:100-108
ToggleSettle == ToggleResolve \/ ToggleReject

\* the PUT of saveRisk returns or throws, App.jsx:125-132
RiskPutSettle == RiskPutResolve(DefaultRiskChf) \/ RiskPutReject(DefaultRiskChf)

LiveNext ==
    \/ \E t \in Tabs : SwitchTab(t)
    \/ LoadMarketData
    \/ LoadTrades
    \/ \E f \in Requests :
          \/ CandlesResolve(f)
          \/ CandlesReject(f)
          \/ OpeningRangeResolve(f)
          \/ OpeningRangeReject(f)
          \/ TradesResolve(f)
          \/ TradesReject(f)
    \/ LoadStrategies
    \/ StrategiesSettle
    \/ ToggleStrategy
    \/ ToggleSettle
    \/ SaveRisk
    \/ RiskPutSettle

\* every fetch issued settles: fetchJson resolves or throws (App.jsx:70-84)
\* and each caller handles both outcomes
LiveFairness ==
    /\ WF_pending(Settled("candles"))
    /\ WF_pending(Settled("openingRange"))
    /\ WF_pending(Settled("trades"))
    /\ WF_vars(StrategiesSettle)
    /\ WF_vars(ToggleSettle)
    /\ WF_vars(RiskPutSettle)

LiveSpec == LiveInit /\ [][LiveNext]_vars /\ LiveFairness

---------------------------------------------------------------------------
(* Properties *)

\* the raw batch and the trade list held by the panels
RawBatch == IF candles.data = Nil THEN <<>> ELSE Val(candles.data)

TradeList == IF trades.data = Nil THEN <<>> ELSE Val(trades.data)

\* the executions the chart effect overlays
PlacedTrades == dayTradesOf(TradeList, candlesDay, instrument)

\* C1: the canonical series on the chart is sorted non-decreasing by time and
\* every bar of it has an open and a time > 0.
C1_SortedOpenPositiveTime ==
    /\ \A i \in 1..Len(chart.data) :
          /\ chart.data[i].open # Nil
          /\ chart.data[i].time # Nil
          /\ Val(chart.data[i].time) > 0
    /\ \A i \in 1..(Len(chart.data) - 1) :
          Val(chart.data[i].time) <= Val(chart.data[i + 1].time)

\* C1 witness: a batch whose two records arrive latest first is on the chart,
\* earliest first.
C1_Witness ==
    /\ chart.alive
    /\ Len(RawBatch) = 2
    /\ Len(chart.data) = 2
    /\ chart.data[1] = toBar(RawBatch[2], instrument)
    /\ chart.data[2] = toBar(RawBatch[1], instrument)
    /\ Val(chart.data[1].time) < Val(chart.data[2].time)

\* a raw record the feed of `sym` can place: tagged for it (index feed), with
\* an open and a time of at least one second after the epoch
C8_Valid(c, sym) ==
    /\ c.o # Nil \/ c.open # Nil
    /\ IF currentInstrument(sym).source = "oanda"
       THEN /\ c.time # Nil
            /\ Val(c.time).date \in Days
       ELSE /\ c.sym \in {"", "I:" \o sym}
            /\ c.s # Nil
            /\ Val(c.s) >= MsPerSecond

\* C8: an empty or entirely-invalid batch gives no chart, no marker, no price
\* line, no legend value and no error; the legend holds values only when the
\* canonical series is non-empty.
C8_EmptySeriesNothingDrawn ==
    /\ (\A i \in 1..Len(RawBatch) : ~C8_Valid(RawBatch[i], instrument))
          => chart = NoChart
    /\ chart.legend # emptyLegend => chart.alive /\ chart.data # <<>>

\* C8 witness: the market tab is open on a non-empty batch with no valid record.
C8_Witness ==
    /\ activeTab = "market"
    /\ Len(RawBatch) > 0
    /\ \A i \in 1..Len(RawBatch) : ~C8_Valid(RawBatch[i], instrument)
    /\ chart = NoChart

\* the marker m is the one the claim gives the execution t
C9_MarkerOf(m, t) ==
    LET ts   == DayNumber(Val(t.timestamp).date) * SecondsPerDay
                + Val(t.timestamp).ms \div MsPerSecond
        dec  == currentInstrument(instrument).decimals
        unit == Pow10(PriceDigits - dec)
    IN  /\ IF t.direction = "LONG"
           THEN m.position = "belowBar" /\ m.shape = "arrowUp" /\ m.color = "#26a69a"
           ELSE m.position = "aboveBar" /\ m.shape = "arrowDown" /\ m.color = "#ef5350"
        /\ \E i \in 1..Len(chart.data) : chart.data[i].time = m.time
        /\ \A i \in 1..Len(chart.data) :
              Abs(Val(m.time) - ts) <= Abs(Val(chart.data[i].time) - ts)
        /\ m.text.direction = t.direction
        /\ t.fill_price # Nil =>
              /\ ~m.text.price.nan
              /\ m.text.price.dec = dec
              /\ 2 * Abs(m.text.price.units * unit - Val(t.fill_price)) <= unit

\* C9: every placed execution has its marker: below the bar, arrow up, long
\* color for LONG; above the bar, arrow down, short color for SHORT; at the
\* time of the bar nearest to the execution; labelled with the direction and
\* the fill price at the instrument's precision.
C9_MarkerPerExecution ==
    chart.alive =>
       /\ Len(chart.markers) = Len(PlacedTrades)
       /\ \A i \in 1..Len(PlacedTrades) :
             \E j \in 1..Len(chart.markers) : C9_MarkerOf(chart.markers[j], PlacedTrades[i])

\* C9 witness: bars at 300 s and 600 s, one LONG execution at 310 s filled at
\* 100.7 on a 1-decimal instrument: one below-bar arrow-up marker at the bar
\* of 300 s labelled LONG @ 100.7.
C9_Witness ==
    /\ chart.alive
    /\ instrument = "SPX"
    /\ TimesOf(chart.data) = <<EpochSec(Day1, 300), EpochSec(Day1, 600)>>
    /\ Len(TradeList) = 1
    /\ TradeList[1].direction = "LONG"
    /\ TradeList[1].timestamp = Some(Iso(Day1, 310 * MsPerSecond))
    /\ TradeList[1].fill_price = Some(10070000)
    /\ chart.markers =
          << [time |-> Some(EpochSec(Day1, 300)), position |-> "belowBar",
              color |-> "#26a69a", shape |-> "arrowUp",
              text |-> [direction |-> "LONG",
                        price |-> [nan |-> FALSE, units |-> 1007, dec |-> 1]]] >>

\* seconds since the epoch of an execution
C2_ExecSeconds(t) ==
    DayNumber(Val(t.timestamp).date) * SecondsPerDay + Val(t.timestamp).ms \div MsPerSecond

\* the distance from an execution to the nearest bar of the chart
C2_NearestDistance(t) ==
    LET ds == {Abs(Val(chart.data[i].time) - C2_ExecSeconds(t)) : i \in 1..Len(chart.data)}
    IN  CHOOSE d \in ds : \A e \in ds : d <= e

\* the snap tolerance of the specification: five minutes, one bar
C2_SnapToleranceSeconds == 5 * 60

C2_WithinTolerance == SelectSeq(PlacedTrades, LAMBDA t : C2_NearestDistance(t) <= C2_SnapToleranceSeconds)

\* C2: an execution 300 s from the nearest bar is placed, one whose nearest
\* bar is 301 s or more away gives no marker and no price line: the overlays
\* are those of the executions within the tolerance.
C2_SnapTolerance ==
    chart.alive =>
       /\ Len(chart.markers) = Len(C2_WithinTolerance)
       /\ chart.lines = linesOf(C2_WithinTolerance)

\* C3: a candle or opening-range result that arrives for a request whose
\* (day, instrument) is no longer the selection is not applied.
C3_StaleResultNotApplied ==
    [][\A f \in Requests :
          ( /\ f.kind \in {"candles", "openingRange"}
            /\ BagIn(f, pending)
            /\ pending' = pending (-) One(f)
            /\ <<f.day, f.instr>> # <<candlesDay, instrument>> )
          => /\ candles'.data = candles.data
             /\ openingRange'.data = openingRange.data]_vars

\* C4: no opening-range line is on the chart of a currency-pair instrument.
C4_NoOpeningRangeLineOnCurrencyChart ==
    (chart.alive /\ currentInstrument(instrument).source = "oanda")
       => chart.orLines = <<>>

\* a canonical bar as a raw record: {time (unix seconds), open, high, low, close}
C5_CanonicalAsRaw(bar) ==
    Raw("", Nil, Some(NumberTime(Val(bar.time))),
        Nil, bar.open, Nil, bar.high, Nil, bar.low, Nil, bar.close)

\* a canonical bar in the feed's own encoding of time: s in epoch
\* milliseconds for the index feed, the ISO string for the currency feed
C5_CanonicalAsFeed(bar, sym) ==
    LET t    == Val(bar.time)
        date == CHOOSE d \in Days : DayNumber(d) = t \div SecondsPerDay
    IN  IF currentInstrument(sym).source = "oanda"
        THEN Raw("", Nil, Some(Iso(date, (t % SecondsPerDay) * MsPerSecond)),
                 Nil, bar.open, Nil, bar.high, Nil, bar.low, Nil, bar.close)
        ELSE Raw("", Some(t * MsPerSecond), Nil,
                 Nil, bar.open, Nil, bar.high, Nil, bar.low, Nil, bar.close)

\* C5 as stated: normalizing the canonical series again, for the same
\* instrument, yields the same series.
C5_Idempotent ==
    chart.alive =>
       normalize([i \in 1..Len(chart.data) |-> C5_CanonicalAsRaw(chart.data[i])],
                 instrument) = chart.data

\* C5 amended: normalizing the canonical series again yields the same series
\* once its bars are put in the feed's encoding of time (s = time * 1000 for
\* the index feed, the ISO string of time for the currency feed).
C5_IdempotentInFeedEncoding ==
    chart.alive =>
       normalize([i \in 1..Len(chart.data) |-> C5_CanonicalAsFeed(chart.data[i], instrument)],
                 instrument) = chart.data

\* C5 witness: a series of two bars of equal time, whose order a second
\* normalization has to keep.
C5_Witness ==
    /\ chart.alive
    /\ Len(chart.data) = 2
    /\ chart.data[1].time = chart.data[2].time
    /\ chart.data[1] # chart.data[2]

\* C6: normalization, alignment and the initial legend update raise no error,
\* whatever fields the records lack.
C6_NeverThrows == ~chart.threw

\* the broker symbols of the index instruments (SPX500_USD, NAS100_USD); a
\* currency pair has the same symbol on both sides
C7_SameInstrument(broker, ui) ==
    \/ broker = ui
    \/ ui = "SPX" /\ broker = "SPX500_USD"
    \/ ui = "NDX" /\ broker = "NAS100_USD"

C7_OfSelection ==
    SelectSeq(TradeList,
              LAMBDA t : /\ t.timestamp # Nil
                         /\ Val(t.timestamp).date = candlesDay
                         /\ C7_SameInstrument(t.instrument, instrument))

\* C7: with a day selected, the markers and price lines are those of the
\* executions of that day on the selected instrument, and of no other.
C7_OverlaysOfSelectionOnly ==
    (chart.alive /\ candlesDay # "") =>
       /\ Len(chart.markers) <= Len(C7_OfSelection)
       /\ Len(chart.lines) <= Len(linesOf(C7_OfSelection))

\* the price lines the claim gives an execution
C10_LinesOf(t) ==
    (IF Coalesce(t.fill_price, t.entry) # Nil
     THEN <<Line("Entry", Coalesce(t.fill_price, t.entry))>> ELSE <<>>)
    \o (IF t.sl # Nil THEN <<Line("SL", t.sl)>> ELSE <<>>)
    \o (IF t.tp # Nil THEN <<Line("TP", t.tp)>> ELSE <<>>)

RECURSIVE C10_AllLines(_)
C10_AllLines(list) ==
    IF list = <<>> THEN <<>> ELSE C10_LinesOf(Head(list)) \o C10_AllLines(Tail(list))

\* C10: each placed execution gives an entry line at its fill price, or at
\* its entry when it has no fill price, a stop-loss line at sl and a
\* take-profit line at tp, each if and only if the field is present.
C10_PriceLines ==
    chart.alive => chart.lines = C10_AllLines(PlacedTrades)

\* the bar the legend shows: the bar under the crosshair, or the last bar of
\* the series when the crosshair is on no bar
LegendBar ==
    IF chart.crosshair # Nil THEN chart.data[Val(chart.crosshair)]
    ELSE chart.data[Len(chart.data)]

\* C11: the legend's direction is up exactly when the close of the bar it
\* shows is greater than or equal to its open; a bar whose close equals its
\* open is up.
C11_UpIffCloseAtLeastOpen ==
    (chart.alive /\ LegendBar.open # Nil /\ LegendBar.close # Nil) =>
        /\ chart.legend.cls \in {"up", "down"}
        /\ chart.legend.cls = "up" <=> Val(LegendBar.close) >= Val(LegendBar.open)

\* C11 witness: the legend of a bar whose close equals its open is up.
C11_Witness ==
    /\ chart.alive
    /\ ~chart.legend.threw
    /\ LegendBar.open # Nil
    /\ LegendBar.close = LegendBar.open
    /\ chart.legend.cls = "up"

\* C12: the percent change the legend shows is a finite number, and it is 0
\* when the previous close is zero or undefined.
C12_PercentChangeFinite ==
    (chart.alive /\ chart.legend.change # Nil) =>
        Val(chart.legend.change).pct.kind = "number"

\* the index in the series of the bar the legend shows
LegendIndex ==
    IF chart.crosshair # Nil THEN Val(chart.crosshair) ELSE Len(chart.data)

\* the close of the bar immediately before the bar the legend shows, and for
\* the first bar of the series its own open
C13_PrevClose ==
    IF LegendIndex > 1 THEN chart.data[LegendIndex - 1].close ELSE LegendBar.open

\* C13: for a series of any length, a single bar included, the percent change
\* the legend shows is (close - prevClose) / prevClose * 100 of the bar it
\* shows, prevClose being the close of the bar immediately before it and, for
\* the first bar, that bar's own open.
C13_PercentChangeOfLegendBar ==
    (chart.alive /\ ~chart.legend.threw) =>
        /\ chart.legend.change # Nil
        /\ Val(chart.legend.change).pct = pctOf(LegendBar.close, C13_PrevClose)

\* the four values of the legend, as updateLegend formats them
C14_ValuesOf(bar) ==
    << Some(toFixed(bar.open, chart.precision)), Some(toFixed(bar.high, chart.precision)),
       Some(toFixed(bar.low, chart.precision)), Some(toFixed(bar.close, chart.precision)) >>

\* C14: with the crosshair on no bar the legend shows the values of the last
\* bar of the series, and with the crosshair on a bar the values of that bar.
C14_LegendOfHoveredOrLastBar ==
    (chart.alive /\ ~chart.legend.threw) =>
        chart.legend.spans =
            IF chart.crosshair = Nil
            THEN C14_ValuesOf(chart.data[Len(chart.data)])
            ELSE C14_ValuesOf(chart.data[Val(chart.crosshair)])

\* C14 witness: the crosshair is on the first of two bars of different prices
\* and the legend shows the first bar's values.
C14_Witness ==
    /\ chart.alive
    /\ ~chart.legend.threw
    /\ Len(chart.data) = 2
    /\ chart.crosshair = Some(1)
    /\ C14_ValuesOf(chart.data[1]) # C14_ValuesOf(chart.data[2])
    /\ chart.legend.spans = C14_ValuesOf(chart.data[1])

\* C15: the markers handed to the chart are sorted non-decreasing by time,
\* whatever the order of the executions in the trade list.
C15_MarkersSortedByTime ==
    \A i \in 1..(Len(chart.markers) - 1) :
        Val(chart.markers[i].time) <= Val(chart.markers[i + 1].time)

\* C15 witness: two executions listed latest first, snapped to different
\* bars, have their markers earliest first.
C15_Witness ==
    /\ chart.alive
    /\ Len(PlacedTrades) = 2
    /\ Len(chart.markers) = 2
    /\ Val(tradeSeconds(PlacedTrades[1])) > Val(tradeSeconds(PlacedTrades[2]))
    /\ Val(chart.markers[1].time) < Val(chart.markers[2].time)

\* the fixed table of UI symbol and broker symbol of the index instruments
SymbolTable == {<<"SPX", "SPX500_USD">>, <<"NDX", "NAS100_USD">>}

\* toBrokerSymbol(uiSymbol): the broker symbol of the table, else the symbol
toBrokerSymbol(ui) ==
    IF \E p \in SymbolTable : p[1] = ui
    THEN (CHOOSE p \in SymbolTable : p[1] = ui)[2]
    ELSE ui

\* fromBrokerSymbol passing every symbol through
fromBrokerSymbol_PassThrough(broker) == broker

\* fromBrokerSymbol(brokerSymbol): the UI symbol of the table, else the symbol
fromBrokerSymbol(broker) ==
    IF \E p \in SymbolTable : p[2] = broker
    THEN (CHOOSE p \in SymbolTable : p[2] = broker)[1]
    ELSE broker

\* the executions of the selected day whose instrument is the broker symbol
\* of the selected instrument
C16_OfBrokerSymbol ==
    SelectSeq(TradeList,
              LAMBDA t : /\ StartsWith(t.timestamp, candlesDay)
                         /\ t.instrument = toBrokerSymbol(instrument))

\* C16: mapping a catalog symbol to its broker symbol and back gives the
\* symbol again, a broker symbol without mapping is passed through unchanged,
\* and an execution whose instrument is the broker symbol of the selected
\* instrument is placed on that instrument's chart.
C16_SymbolRoundTrip ==
    /\ \A i \in 1..Len(INSTRUMENTS) :
          fromBrokerSymbol(toBrokerSymbol(INSTRUMENTS[i].sym)) = INSTRUMENTS[i].sym
    /\ fromBrokerSymbol(toBrokerSymbol(instrument)) = instrument
    /\ \A i \in 1..Len(TradeList) :
          (\A p \in SymbolTable : p[2] # TradeList[i].instrument) =>
              fromBrokerSymbol(TradeList[i].instrument) = TradeList[i].instrument
    /\ chart.alive =>
          \A i \in 1..Len(C16_OfBrokerSymbol) :
             \E j \in 1..Len(chart.markers) :
                chart.markers[j] =
                    markerOf(C16_OfBrokerSymbol[i], TimesOf(chart.data), chart.precision)

\* C16 witness: SPX is selected and an execution on SPX500_USD has its marker.
C16_Witness ==
    /\ chart.alive
    /\ instrument = "SPX"
    /\ toBrokerSymbol(instrument) = "SPX500_USD"
    /\ Len(C16_OfBrokerSymbol) > 0
    /\ \E j \in 1..Len(chart.markers) :
          chart.markers[j] =
              markerOf(C16_OfBrokerSymbol[1], TimesOf(chart.data), chart.precision)

\* the symbols of the catalog, and symbols it does not hold: a broker
\* symbol, a symbol in another case, the empty string
C17_Symbols ==
    {INSTRUMENTS[i].sym : i \in 1..Len(INSTRUMENTS)} \cup {"SPX500_USD", "spx", ""}

\* C17: the lookup of a symbol gives the catalog entry of that symbol, and
\* the first entry of the catalog for a symbol the catalog does not hold; the
\* chart of the selected instrument has the precision of its entry.
C17_LookupNeverFails ==
    /\ \A s \in C17_Symbols \cup {instrument} :
          IF \E i \in 1..Len(INSTRUMENTS) : INSTRUMENTS[i].sym = s
          THEN /\ currentInstrument(s).sym = s
               /\ \E i \in 1..Len(INSTRUMENTS) : currentInstrument(s) = INSTRUMENTS[i]
          ELSE currentInstrument(s) = INSTRUMENTS[1]
    /\ chart.alive =>
          \E i \in 1..Len(INSTRUMENTS) :
             /\ INSTRUMENTS[i].sym = instrument
             /\ chart.precision = INSTRUMENTS[i].decimals

\* C17 witness: the chart of USD_JPY, the sixth entry, has its 3 decimals,
\* and the lookup of a broker symbol gives the first entry.
C17_Witness ==
    /\ chart.alive
    /\ instrument = "USD_JPY"
    /\ chart.precision = 3
    /\ currentInstrument("SPX500_USD") = INSTRUMENTS[1]

\* the precision the catalog gives a symbol that is the UI symbol or the
\* broker symbol of one of its instruments, and 5 for any other symbol
C18_CatalogDecimals(s) ==
    LET hits == {i \in 1..Len(INSTRUMENTS) : C7_SameInstrument(s, INSTRUMENTS[i].sym)}
    IN  IF hits = {} THEN 5
        ELSE INSTRUMENTS[CHOOSE i \in hits : TRUE].decimals

\* C18: the precision resolved for a symbol is the catalog precision of the
\* instrument whose UI symbol or broker symbol it is (1 for SPX and for
\* SPX500_USD, 3 for USD_JPY), and 5 for every other symbol; so it is for the
\* instrument of every execution listed and for the selected instrument.
C18_DecimalsOfBrokerOrUiSymbol ==
    \A s \in {TradeList[i].instrument : i \in 1..Len(TradeList)} \cup {instrument} :
        priceDec(s) = C18_CatalogDecimals(s)

\* the dependencies of the chart effect
C19_Deps == <<activeTab, candles.data, openingRange.data, trades.data, candlesDay, instrument>>

\* a fetch of loadMarketData for the selection (day, sym) is in flight
C19_PendingFor(bag, day, sym) ==
    \E f \in BagToSet(bag) :
        \/ f.kind = "trades"
        \/ f.kind \in {"candles", "openingRange"} /\ f.day = day /\ f.instr = sym

\* C19: the chart effect runs its pipeline only when every input of the
\* current selection has resolved: in no step that runs it to a chart is a
\* candle, opening-range or trade fetch of the current (day, instrument) in
\* flight, or the candle data that of another selection.
C19_RunsOnResolvedInputsOnly ==
    [][ (C19_Deps' # C19_Deps /\ chart'.alive) =>
            /\ ~C19_PendingFor(pending', candlesDay', instrument')
            /\ applied'.candles = Key(candlesDay', instrument') ]_vars

\* the records of the batch the claim keeps, in batch order
C20_Kept == SelectSeq(RawBatch, LAMBDA c : C8_Valid(c, instrument))

\* C20: on the market tab the canonical series holds exactly one bar for
\* each record of the batch that has an open and a time > 0 and, on the
\* index feed, no sym or the sym of the selected instrument; it holds no bar
\* of any other record, and on the currency feed the sym is not looked at.
C20_KeepsExactlyValidRecords ==
    activeTab = "market" =>
        BagOfSeq(chart.data) = BagOfSeq(MapBars(C20_Kept, instrument))

\* C20 witness: of an untagged record and a record tagged for NDX, the SPX
\* chart holds the bar of the untagged one alone.
C20_Witness ==
    /\ chart.alive
    /\ instrument = "SPX"
    /\ Len(RawBatch) = 2
    /\ \E i, j \in 1..2 :
          /\ RawBatch[i].sym = ""
          /\ RawBatch[j].sym = "I:NDX"
          /\ chart.data = <<toBar(RawBatch[i], instrument)>>

\* the value the alias chain gives: the short key's when it is present, be
\* it 0, and the long key's otherwise
C21_Resolved(short, long) == IF short = Nil THEN long ELSE short

\* the prices of the bar of record c
C21_Prices(c) ==
    << C21_Resolved(c.o, c.open), C21_Resolved(c.h, c.high),
       C21_Resolved(c.l, c.low), C21_Resolved(c.c, c.close) >>

C21_PricesOfBar(d) == <<d.open, d.high, d.low, d.close>>

RECURSIVE C21_Map(_)
C21_Map(batch) ==
    IF batch = <<>> THEN <<>> ELSE <<C21_Prices(Head(batch))>> \o C21_Map(Tail(batch))

RECURSIVE C21_MapBars(_)
C21_MapBars(data) ==
    IF data = <<>> THEN <<>> ELSE <<C21_PricesOfBar(Head(data))>> \o C21_MapBars(Tail(data))

\* C21: open, high, low and close of every bar of the canonical series are
\* the values of o, h, l, c of its record wherever these are present, 0
\* included, and the values of open, high, low, close only where the short
\* key is absent.
C21_ShortKeyBeforeLongKey ==
    activeTab = "market" =>
        BagOfSeq(C21_MapBars(chart.data)) = BagOfSeq(C21_Map(C20_Kept))

\* C21 witness: a record with o = 0 and open = 100 gives a bar whose open is 0,
\* and a record without o gives a bar whose open is its open.
C21_Witness ==
    /\ chart.alive
    /\ Len(RawBatch) = 2
    /\ Len(chart.data) = 2
    /\ \E i, j \in 1..2 :
          /\ RawBatch[i].o = Some(0)
          /\ RawBatch[i].open # Nil /\ RawBatch[i].open # Some(0)
          /\ RawBatch[j].o = Nil
          /\ chart.data[1].open = Some(0)
          /\ chart.data[2].open = RawBatch[j].open
          /\ chart.data[2].open # Some(0)

\* the time of the bar at the least distance from the execution t, the
\* earliest of them when several are at that distance
C22_Nearest(t) ==
    LET times == {Val(chart.data[i].time) : i \in 1..Len(chart.data)}
        dist(b) == Abs(b - C2_ExecSeconds(t))
        best  == {b \in times : \A c \in times : dist(b) <= dist(c)}
    IN  CHOOSE b \in best : \A c \in best : b <= c

\* C22: on a non-empty canonical series every placed execution is snapped to
\* the bar at the least absolute time distance from it, and to the earliest
\* such bar when several are at that distance: the marker times are the
\* times of these bars, one marker for each execution.
C22_SnapsToNearestEarliestBar ==
    chart.alive =>
        /\ Len(chart.markers) = Len(PlacedTrades)
        /\ \A i \in 1..Len(chart.data) :
              LET x == Val(chart.data[i].time)
              IN  Cardinality({j \in 1..Len(chart.markers) : Val(chart.markers[j].time) = x})
                  = Cardinality({k \in 1..Len(PlacedTrades) : C22_Nearest(PlacedTrades[k]) = x})

\* C22 witness: an execution at 450 s, as far from the bar at 300 s as from
\* the bar at 600 s, has its marker at 300 s.
C22_Witness ==
    /\ chart.alive
    /\ TimesOf(chart.data) = <<EpochSec(Day1, 300), EpochSec(Day1, 600)>>
    /\ Len(PlacedTrades) = 1
    /\ C2_ExecSeconds(PlacedTrades[1]) = EpochSec(Day1, 450)
    /\ Len(chart.markers) = 1
    /\ chart.markers[1].time = Some(EpochSec(Day1, 300))

\* the executions of the list eligible for the selection: of the selected
\* day and, on a currency chart, of the selected instrument
C23_Eligible ==
    SelectSeq(TradeList,
              LAMBDA t : /\ t.timestamp # Nil
                         /\ candlesDay # "" => Val(t.timestamp).date = candlesDay
                         /\ (\E i \in 1..Len(INSTRUMENTS) :
                                INSTRUMENTS[i].sym = instrument /\ INSTRUMENTS[i].source = "oanda")
                            => t.instrument = instrument)

\* the last bar of the series has its four prices
C23_LastBarComplete ==
    LET bar == chart.data[Len(chart.data)]
    IN  bar.open # Nil /\ bar.high # Nil /\ bar.low # Nil /\ bar.close # Nil

C24_Decimals == 0..PriceDigits

C25_EventHandled ==
    /\ authEvents # <<>>
    /\ authEvents' \in {Tail(authEvents), Append(Tail(authEvents), Nil)}
    /\ authEvents' # authEvents \/ user' # user \/ authError' # authError

C26_EventsOfExpandedTrade ==
    tradeEvents.data # Nil =>
        /\ expandedTradeId # Nil
        /\ tradeEvents.data \in {Some(eventsOf(Val(expandedTradeId))), Some(<<>>)}

\* the two shapes of a panel after a load: the response, or the message
C27_Settled(p) ==
    /\ ~p.loading
    /\ (p.data # Nil /\ p.error = Nil) \/ (p.data = Nil /\ p.error # Nil)

\* a load of the panel completes in this step
C27_Completes(kind) ==
    /\ BagIn(Req(kind, ""), requests)
    /\ requests' = requests (-) One(Req(kind, ""))

\* C27 as stated: every completed load leaves its panel with the response
\* and no error or with the message and no data, and no panel ever holds an
\* error together with data, toggleStrategy included.
C27_ErrorNeverWithData ==
    [][ /\ C27_Completes("strategies") => C27_Settled(strategies')
        /\ C27_Completes("balance") => C27_Settled(balance')
        /\ \A p \in {strategies', balance', candles', trades'} :
              ~(p.error # Nil /\ p.data # Nil) ]_vars

\* C27 amended: every completed load leaves its panel with the response and
\* no error or with the message and no data; a panel holds an error together
\* with data only after a failed toggleStrategy, which keeps the strategies
\* already loaded and adds the message of the failed toggle.
C27_ErrorWithDataOnlyAfterFailedToggle ==
    [][ /\ C27_Completes("strategies") => C27_Settled(strategies')
        /\ C27_Completes("balance") => C27_Settled(balance')
        /\ \A p \in {balance', candles', trades'} : ~(p.error # Nil /\ p.data # Nil)
        /\ (strategies'.error # Nil /\ strategies'.data # Nil) =>
              /\ strategies'.error = Some("toggle")
              /\ strategies'.data = strategies.data
              /\ ~strategies'.loading ]_vars

\* C27 witness: a toggle has failed on loaded strategies: the panel holds the
\* strategies and the message.
C27_Witness ==
    /\ strategies.data # Nil
    /\ strategies.error = Some("toggle")
    /\ ~strategies.loading
    /\ C27_Settled(balance)

\* an amount saveRisk must refuse: not a number, zero or negative
C30_Invalid(v) == v = Nil \/ Val(v) <= 0

\* the save requests in flight
C30_Puts(bag) == {f \in BagToSet(bag) : f.kind = "riskPut"}

\* C30: a call of saveRisk with an amount that is not a number, zero or
\* negative sends no request and leaves riskChf as it is; when the PUT fails,
\* value and loaded keep their values and saving alone returns to false.
C30_SaveRiskRejectsAndRestores ==
    [][ /\ C30_Invalid(riskChf.value) =>
              /\ C30_Puts(requests') \subseteq C30_Puts(requests)
              /\ riskChf'.saving => riskChf.saving
        /\ (lastSaveRisk' = "ignored" /\ lastSaveRisk # "ignored") =>
              /\ C30_Invalid(riskChf.value)
              /\ riskChf' = riskChf
              /\ requests' = requests
        /\ (lastSaveRisk' = "sent" /\ lastSaveRisk # "sent") =>
              /\ ~C30_Invalid(riskChf.value)
              /\ C30_Puts(requests') = C30_Puts(requests) \cup {Req("riskPut", Val(riskChf.value))}
        /\ (lastSaveRisk' = "failed" /\ lastSaveRisk # "failed") =>
              /\ riskChf'.value = riskChf.value
              /\ riskChf'.loaded = riskChf.loaded
              /\ riskChf.saving /\ ~riskChf'.saving ]_vars

\* C30 witness: the PUT of an amount typed over a setting never loaded has
\* failed: the amount typed is still there, loaded is still false, saving is
\* false again.
C30_Witness ==
    /\ lastSaveRisk = "failed"
    /\ riskChf = [value |-> Some(100), saving |-> FALSE, loaded |-> FALSE]
    /\ C30_Puts(requests) = {}

\* C29: every chart the effect has created and not removed itself has a
\* cleanup registered that disconnects the observer and removes the chart
\* and its legend, so that at most one chart instance is alive at any time.
C29_CreatedChartHasCleanup == chart.alive => chart.cleanup

\* C28: when every fetch issued settles, each loading flag that has been set
\* (strategies by a load or a toggle, candles, openingRange, trades,
\* riskChf.saving) is false again later, whatever the interleaving of user
\* actions and completions. (A flag that is false again after every moment
\* it is true is a flag that is false infinitely often.)
C28_LoadingFlagsReturnToFalse ==
    /\ []<>(~strategies.loading)
    /\ []<>(~candles.loading)
    /\ []<>(~openingRange.loading)
    /\ []<>(~trades.loading)
    /\ []<>(~riskChf.saving)

\* C28 witness: a toggle and a save have both failed and the market panels
\* have been loaded: no flag is set and no request is left.
C28_Witness ==
    /\ strategies.error = Some("toggle") /\ ~strategies.loading
    /\ lastSaveRisk = "failed" /\ ~riskChf.saving
    /\ candles.data # Nil /\ ~candles.loading
    /\ openingRange.data # Nil /\ ~openingRange.loading
    /\ trades.data # Nil /\ ~trades.loading
    /\ pending = EmptyBag /\ requests = EmptyBag

=============================================================================
